---- MODULE Spec2Model ----
(***************************************************************************)
(* The AI comments evaluator: the evaluation store (app/utils/db.py,       *)
(* app/utils/schemas.py), the queries over the measurement store           *)
(* (app/utils/io.py), the synchronisation with object storage              *)
(* (app/utils/s3_sync.py) and the two pages (streamlit_app.py,             *)
(* pages/1_Review.py).                                                     *)
(*                                                                         *)
(* The store is one SQLite file (state/eval.sqlite) holding the table      *)
(* `evaluations`, its three indices and the AUTOINCREMENT bookkeeping      *)
(* table sqlite_sequence.  Every function of db.py is one action: it opens *)
(* a connection (which creates the file), runs its statements and returns  *)
(* or raises.  The outcome of the last call is kept in op / arg / ret.     *)
(*                                                                         *)
(* The measurement store is four Parquet files of data/.  Spec runs the    *)
(* evaluation store, SpecIO the queries of io.py over the files and rows   *)
(* the store can hold, SpecApp the download of the files and the pages.    *)
(* SpecSync runs the operations of s3_sync.py under complete, partial and  *)
(* absent settings, SpecStats get_database_stats statement by statement    *)
(* beside other sessions, SpecReview the navigation of the Review page in  *)
(* one browser session, and SpecGrading its grading forms beside direct    *)
(* create_evaluation calls.                                                *)
(***************************************************************************)
EXTENDS Integers, Sequences, FiniteSets, TLC

VARIABLES
    dbFile,     \* state/eval.sqlite exists on disk
    schema,     \* sqlite_master: names of the schema objects, in creation order
    rows,       \* rows of table evaluations, in rowid order
    seq,        \* sqlite_sequence.seq for evaluations (largest rowid ever used)
    clock,      \* the wall clock read by datetime.utcnow(), in microseconds
    parquet,    \* the local evaluations_<ts>.parquet files: the set of their <ts>
    created,    \* history: the Evaluations returned by create_evaluation, in call order
    op,         \* name of the last function called
    arg,        \* its argument (of an EvaluationCreate, the Grade)
    ret,        \* its outcome: [kind |-> "ok" or the exception raised, val |-> value]
    local,      \* data/: for each required file, Absent or <<its age in seconds>>
    alerts,     \* the rows of alerts.parquet
    oil,        \* the rows of oil_measurements.parquet
    telemetry,  \* the rows of telemetry_measurements.parquet
    comments,   \* the rows of ai_comments.parquet
    requested,  \* the objects the last download_data_files asked object storage for
    page,       \* what the page rendered last shows: its stage, the alert displayed,
                \* the filters selected, the alert list, the counts, forms and message
    environ,    \* the S3 settings of os.environ / st.secrets: ACCESS_KEY, SECRET_KEY, BUCKET_NAME
    stdout,     \* the lines the last call of s3_sync.py printed, each a sequence of its parts
    session_state,  \* st.session_state of the evaluator's browser session
    fetched     \* the counts fetched so far by a get_database_stats call in progress

dbVars == <<dbFile, schema, rows, seq, clock, parquet, created>>
dataVars == <<local, alerts, oil, telemetry, comments, requested, page>>
sessionVars == <<environ, session_state, fetched>>
vars == <<dbFile, schema, rows, seq, clock, parquet, created, op, arg, ret,
          local, alerts, oil, telemetry, comments, requested, page,
          environ, stdout, session_state, fetched>>

----------------------------------------------------------------------------
(* Bounds of the model.                                                    *)

MaxRows == 2          \* at most this many rows are inserted
MaxTicks == 1         \* the clock advances at most this many times
TickUsec == 500000    \* microseconds per advance of the clock

(* Inputs.                                                                 *)

None == "None"                      \* Python None / SQL NULL
Comments == {"c1", "c2"}
Alerts == {"a1", "a2"}
Users == {"u1", "u2"}
\* The EvaluationCreate objects the callers construct (all pass the
\* constructor's validation): a comment graded by two evaluators, a second
\* comment of the same alert graded anonymously, and one of another alert.
Constructed ==
    { [AICommentId |-> "c1", AlertId |-> "a1", Grade |-> 7, UserId |-> "u1", Notes |-> "n1"],
      [AICommentId |-> "c1", AlertId |-> "a1", Grade |-> 1, UserId |-> "u2", Notes |-> None],
      [AICommentId |-> "c2", AlertId |-> "a1", Grade |-> 7, UserId |-> None, Notes |-> "n1"],
      [AICommentId |-> "c2", AlertId |-> "a2", Grade |-> 1, UserId |-> "u1", Notes |-> None] }
\* grades tried: the two ends of the valid range and their outer neighbours
GradeInputs == {0, 1, 7, 8}

----------------------------------------------------------------------------
(* The measurement store: the four Parquet files of data/ and their rows.  *)
(* Timestamps are whole hours; a null string cell is None, a nullable      *)
(* datetime or float cell is a sequence of at most one number.             *)

MaxAbsent == 1        \* at most this many data files are missing when the queries run

ALERTS_FILE == "alerts.parquet"
OIL_FILE == "oil_measurements.parquet"
TELEMETRY_FILE == "telemetry_measurements.parquet"
COMMENTS_FILE == "ai_comments.parquet"
\* required_files of download_data_files, in its order
required_files == <<ALERTS_FILE, OIL_FILE, TELEMETRY_FILE, COMMENTS_FILE>>
DataFiles == {required_files[i] : i \in 1..Len(required_files)}

Absent == <<>>                      \* Path.exists() is False; a file of age n is <<n>>
NaT == <<>>                         \* a null datetime cell; a timestamp is <<hour>>
NaN == <<>>                         \* a null float cell; a number is <<n>>
\* file ages tried, in seconds: just written, one second short of a day, a day
FileAges == {0, 86399, 86400}

\* alerts.parquet: an alert with oil and telemetry, an oil-only alert, and a
\* telemetry-only alert whose TimeStart cell is null; not in AlertId order
AlertRows ==
    << [AlertId |-> "a2", UnitId |-> "T01", Component |-> "Engine", Label |-> "both",
        TimeStart |-> <<100>>, OilAlertId |-> "o1", TelAlertId |-> "t1"],
       [AlertId |-> "a10", UnitId |-> "T02", Component |-> "Engine", Label |-> "oil_only",
        TimeStart |-> <<100>>, OilAlertId |-> "o2", TelAlertId |-> None],
       [AlertId |-> "a1", UnitId |-> "T01", Component |-> "Brake", Label |-> "telemetry_only",
        TimeStart |-> NaT, OilAlertId |-> None, TelAlertId |-> "t1"] >>

\* ai_comments.parquet: a10 has no comment, a9 is no alert
CommentRows ==
    << [AICommentId |-> "c1", AlertId |-> "a1"],
       [AICommentId |-> "c2", AlertId |-> "a2"],
       [AICommentId |-> "c4", AlertId |-> "a9"] >>

\* oil_measurements.parquet: Fe sampled twice for o1, the later sample without
\* limit and breach level; Cu sampled twice; o1 measured with two oil meters
OilRows ==
    << [OilAlertId |-> "o1", SampleDate |-> 2, ElementName |-> "Fe", Value |-> 50,
        LimitValue |-> NaN, BreachLevel |-> None, IsLimitReached |-> TRUE, OilMeter |-> "m1"],
       [OilAlertId |-> "o1", SampleDate |-> 1, ElementName |-> "Fe", Value |-> 40,
        LimitValue |-> <<45>>, BreachLevel |-> "critical", IsLimitReached |-> FALSE, OilMeter |-> "m1"],
       [OilAlertId |-> "o1", SampleDate |-> 3, ElementName |-> "Cu", Value |-> 7,
        LimitValue |-> <<10>>, BreachLevel |-> "none", IsLimitReached |-> FALSE, OilMeter |-> "m1"],
       [OilAlertId |-> "o1", SampleDate |-> 2, ElementName |-> "Cu", Value |-> 12,
        LimitValue |-> <<10>>, BreachLevel |-> "alert", IsLimitReached |-> TRUE, OilMeter |-> "m1"],
       [OilAlertId |-> "o1", SampleDate |-> 1, ElementName |-> "Si", Value |-> 30,
        LimitValue |-> <<20>>, BreachLevel |-> "critical", IsLimitReached |-> TRUE, OilMeter |-> "m2"],
       [OilAlertId |-> "o2", SampleDate |-> 1, ElementName |-> "Fe", Value |-> 60,
        LimitValue |-> <<45>>, BreachLevel |-> "urgent", IsLimitReached |-> TRUE, OilMeter |-> "m1"] >>

\* telemetry_measurements.parquet, around TimeStart = 100: rows 60 h before,
\* exactly 48 h before and after, one hour past the window, and inside it;
\* press has no upper limit, volt is breached below its upper limit
TelemetryRows ==
    << [TelAlertId |-> "t1", Timestamp |-> 40, VariableName |-> "temp", Value |-> 95,
        UpperLimitValue |-> <<80>>, IsLimitReached |-> TRUE],
       [TelAlertId |-> "t1", Timestamp |-> 52, VariableName |-> "temp", Value |-> 85,
        UpperLimitValue |-> <<80>>, IsLimitReached |-> TRUE],
       [TelAlertId |-> "t1", Timestamp |-> 110, VariableName |-> "press", Value |-> 3,
        UpperLimitValue |-> NaN, IsLimitReached |-> TRUE],
       [TelAlertId |-> "t1", Timestamp |-> 120, VariableName |-> "load", Value |-> 30,
        UpperLimitValue |-> <<10>>, IsLimitReached |-> TRUE],
       [TelAlertId |-> "t1", Timestamp |-> 130, VariableName |-> "volt", Value |-> 5,
        UpperLimitValue |-> <<9>>, IsLimitReached |-> TRUE],
       [TelAlertId |-> "t1", Timestamp |-> 148, VariableName |-> "rpm", Value |-> 70,
        UpperLimitValue |-> <<80>>, IsLimitReached |-> FALSE],
       [TelAlertId |-> "t1", Timestamp |-> 149, VariableName |-> "rpm", Value |-> 99,
        UpperLimitValue |-> <<80>>, IsLimitReached |-> TRUE],
       [TelAlertId |-> "t2", Timestamp |-> 110, VariableName |-> "temp", Value |-> 99,
        UpperLimitValue |-> <<80>>, IsLimitReached |-> TRUE] >>

\* the AlertIds looked up and the filter values passed
AlertIds == {"a1", "a2", "a10", "a9"}
ComponentFilters == {None, "All", "Engine"}
UnitFilters == {None, "All", "T01"}
LabelFilters == {None, "All", "both"}

\* a page before its first run
Closed ==
    [stage |-> "closed", selected_alert |-> None,
     selected_component |-> None, selected_unit |-> None, selected_label |-> None,
     available_alerts |-> <<>>, comments_found |-> 0, already_evaluated |-> 0,
     forms |-> {}, next_alert |-> FALSE, message |-> <<>>]

\* the S3 settings a deployment can have, each taken from os.environ or else
\* from st.secrets (None: in neither); secrets_toml: a secrets file exists
Configured == [ACCESS_KEY |-> "AKIAEXAMPLE", SECRET_KEY |-> "wJalrEXAMPLEKEY",
               BUCKET_NAME |-> "bucket", secrets_toml |-> TRUE]
Environs ==
    { Configured,
      [Configured EXCEPT !.SECRET_KEY = None],
      [ACCESS_KEY |-> None, SECRET_KEY |-> None, BUCKET_NAME |-> "bucket",
       secrets_toml |-> FALSE] }

\* st.session_state of a new browser session: no key is set (None: key absent)
EmptySession ==
    [component_filter |-> None, unit_filter |-> None, label_filter |-> None,
     alert_selector |-> None, alert_selector_options |-> <<>>,
     selected_alert |-> None]

\* a deployment with its settings complete, nothing printed, no browser
\* session and no statistics call in progress
InitSession ==
    /\ environ = Configured
    /\ stdout = <<>>
    /\ session_state = EmptySession
    /\ fetched = <<>>

\* every DataFrame obtained from s by dropping rows
RECURSIVE SubSeqs(_)
SubSeqs(s) ==
    IF s = <<>> THEN {<<>>}
    ELSE LET r == SubSeqs(Tail(s))
         IN  r \cup {<<Head(s)>> \o t : t \in r}

----------------------------------------------------------------------------
(* schemas.py                                                              *)

MinGrade == 1
MaxGrade == 7

\* Evaluation.__post_init__: the grade range test (CreatedAt is set by the caller below).
Evaluation_post_init_NoCheck(Grade) == TRUE
Evaluation_post_init(Grade) == MinGrade <= Grade /\ Grade <= MaxGrade

\* EvaluationCreate.__post_init__
EvaluationCreate_post_init(Grade) == MinGrade <= Grade /\ Grade <= MaxGrade

\* The EvaluationCreate objects a caller can hold.  The dataclass is not frozen,
\* so Grade can be assigned any value after a successful construction.
EvaluationCreateObjects ==
    Constructed \cup
    { [ec EXCEPT !.Grade = g] : ec \in Constructed,
                                g \in {h \in GradeInputs : ~EvaluationCreate_post_init(h)} }

\* CHECK (Grade >= 1 AND Grade <= 7) of EVALUATIONS_TABLE_SQL
CheckConstraint(Grade) == Grade >= 1 /\ Grade <= 7

EVALUATIONS_TABLE == "evaluations"
EVALUATIONS_INDICES == <<"idx_eval_comment", "idx_eval_alert", "idx_eval_created">>

----------------------------------------------------------------------------
(* datetime: utcnow, isoformat, fromisoformat; SQLite text comparison.     *)
(* Only the seconds field and the fraction of the ISO string are modelled: *)
(* "SS" when microsecond = 0 and "SS.ffffff" otherwise, as character codes.*)

utcnow == [second |-> clock \div 1000000, microsecond |-> clock % 1000000]

Digit(n) == 48 + n

RECURSIVE Pad(_, _)
Pad(n, width) == IF width = 0 THEN <<>>
                 ELSE Append(Pad(n \div 10, width - 1), Digit(n % 10))

isoformat(dt) ==
    IF dt.microsecond = 0 THEN Pad(dt.second, 2)
    ELSE Pad(dt.second, 2) \o <<46>> \o Pad(dt.microsecond, 6)

RECURSIVE ParseInt(_)
ParseInt(s) == IF s = <<>> THEN 0
               ELSE 10 * ParseInt(SubSeq(s, 1, Len(s) - 1)) + (s[Len(s)] - 48)

fromisoformat(s) ==
    [second |-> ParseInt(SubSeq(s, 1, 2)),
     microsecond |-> IF Len(s) > 2 THEN ParseInt(SubSeq(s, 4, Len(s))) ELSE 0]

\* memcmp order of the BINARY collation: a proper prefix sorts first
RECURSIVE TextLess(_, _)
TextLess(a, b) ==
    IF b = <<>> THEN FALSE
    ELSE IF a = <<>> THEN TRUE
    ELSE IF a[1] # b[1] THEN a[1] < b[1]
    ELSE TextLess(Tail(a), Tail(b))

----------------------------------------------------------------------------
(* The SQL statements.                                                     *)

TableExists == \E i \in 1..Len(schema) : schema[i] = EVALUATIONS_TABLE

\* CREATE TABLE / CREATE INDEX ... IF NOT EXISTS
CreateAlways(sch, name) == Append(sch, name)
CreateIfNotExists(sch, name) ==
    IF \E i \in 1..Len(sch) : sch[i] = name THEN sch ELSE Append(sch, name)

\* the rowid an INSERT into an AUTOINCREMENT table gets (cursor.lastrowid)
RowidNotAdvanced == IF seq = 0 THEN 1 ELSE seq
NextRowid ==
    LET used == {rows[i].EvaluationId : i \in 1..Len(rows)} \cup {seq}
    IN  (CHOOSE m \in used : \A k \in used : k <= m) + 1

\* SELECT ... WHERE AlertId = ? / WHERE AICommentId = ?  (row positions)
WhereAlertIgnored(alert_id) == 1..Len(rows)
WhereAlert(alert_id) == {i \in 1..Len(rows) : rows[i].AlertId = alert_id}
WhereComment(comment_id) == {i \in 1..Len(rows) : rows[i].AICommentId = comment_id}

\* ORDER BY CreatedAt DESC: every order of the selected rows in which no row
\* precedes one with a greater CreatedAt text (the next row is always one of
\* greatest CreatedAt among those left); rows with equal CreatedAt come in an
\* order SQL leaves open.
RECURSIVE OrderByCreatedAtDesc(_)
OrderByCreatedAtDesc(S) ==
    IF S = {} THEN {<<>>}
    ELSE LET first == {i \in S : \A j \in S :
                          ~TextLess(rows[i].CreatedAt, rows[j].CreatedAt)}
         IN  UNION {{<<i>> \o t : t \in OrderByCreatedAtDesc(S \ {i})} : i \in first}

\* the Evaluation built from a fetched row (db.py 119-127)
RowToEvaluation(r) ==
    [EvaluationId |-> r.EvaluationId, AICommentId |-> r.AICommentId,
     AlertId |-> r.AlertId, UserId |-> r.UserId, Grade |-> r.Grade,
     Notes |-> r.Notes, CreatedAt |-> fromisoformat(r.CreatedAt)]

Fetch(p) == [j \in 1..Len(p) |-> RowToEvaluation(rows[p[j]])]

----------------------------------------------------------------------------
\* a fresh installation: no database file, and data/ not downloaded yet
\* (db.py never reads the measurement store)
Init ==
    /\ dbFile = FALSE
    /\ schema = <<>>
    /\ rows = <<>>
    /\ seq = 0
    /\ clock = 0
    /\ parquet = {}
    /\ created = <<>>
    /\ local = [f \in DataFiles |-> Absent]
    /\ alerts = <<>>
    /\ oil = <<>>
    /\ telemetry = <<>>
    /\ comments = <<>>
    /\ requested = {}
    /\ page = Closed
    /\ op = "start"
    /\ arg = None
    /\ ret = [kind |-> "ok", val |-> None]
    /\ InitSession

\* time passes between two calls
Tick ==
    /\ UNCHANGED <<dataVars, sessionVars>> /\ stdout' = <<>>
    /\ clock < MaxTicks * TickUsec
    /\ clock' = clock + TickUsec
    /\ op' = "Tick"
    /\ arg' = None
    /\ ret' = [kind |-> "ok", val |-> None]
    /\ UNCHANGED <<dbFile, schema, rows, seq, parquet, created>>

\* EvaluationCreate(...): the constructor with its __post_init__
NewEvaluationCreate(Grade) ==
    /\ UNCHANGED <<dataVars, sessionVars>> /\ stdout' = <<>>
    /\ op' = "EvaluationCreate"
    /\ arg' = Grade
    /\ ret' = IF EvaluationCreate_post_init(Grade)
              THEN [kind |-> "ok", val |-> None]
              ELSE [kind |-> "ValueError", val |-> None]
    /\ UNCHANGED <<dbFile, schema, rows, seq, clock, parquet, created>>

\* init_database: CREATE TABLE IF NOT EXISTS, three CREATE INDEX IF NOT EXISTS, commit
init_database_effect_Recreate ==
    /\ dbFile' = TRUE
    /\ schema' = <<EVALUATIONS_TABLE>> \o EVALUATIONS_INDICES
    /\ rows' = <<>>
    /\ UNCHANGED seq
init_database_effect ==
    /\ dbFile' = TRUE
    /\ schema' = CreateIfNotExists(CreateIfNotExists(CreateIfNotExists(
                     CreateIfNotExists(schema, EVALUATIONS_TABLE),
                     EVALUATIONS_INDICES[1]), EVALUATIONS_INDICES[2]),
                     EVALUATIONS_INDICES[3])
    /\ UNCHANGED <<rows, seq>>

init_database ==
    /\ UNCHANGED <<dataVars, sessionVars>> /\ stdout' = <<>>
    /\ op' = "init_database"
    /\ arg' = None
    /\ init_database_effect
    /\ ret' = [kind |-> "ok", val |-> None]
    /\ UNCHANGED <<clock, parquet, created>>

\* ensure_database: initialise only when the file is absent
ensure_database_effect ==
    IF ~dbFile THEN init_database_effect
    ELSE UNCHANGED <<dbFile, schema, rows, seq>>

ensure_database ==
    /\ UNCHANGED <<dataVars, sessionVars>> /\ stdout' = <<>>
    /\ op' = "ensure_database"
    /\ arg' = None
    /\ ensure_database_effect
    /\ ret' = [kind |-> "ok", val |-> None]
    /\ UNCHANGED <<clock, parquet, created>>

\* create_evaluation(evaluation_data)
create_evaluation(evaluation_data) ==
    /\ UNCHANGED <<dataVars, sessionVars>> /\ stdout' = <<>>
    /\ op' = "create_evaluation"
    /\ arg' = evaluation_data.Grade
    /\ dbFile' = TRUE                                   \* get_connection
    /\ UNCHANGED <<schema, clock, parquet>>
    /\ IF ~Evaluation_post_init(evaluation_data.Grade)  \* to_evaluation
       THEN /\ ret' = [kind |-> "ValueError", val |-> None]
            /\ UNCHANGED <<rows, seq, created>>
       ELSE IF ~TableExists                             \* INSERT
       THEN /\ ret' = [kind |-> "OperationalError", val |-> None]
            /\ UNCHANGED <<rows, seq, created>>
       ELSE IF ~CheckConstraint(evaluation_data.Grade)
       THEN /\ ret' = [kind |-> "IntegrityError", val |-> None]
            /\ UNCHANGED <<rows, seq, created>>
       ELSE LET evaluation ==
                    [EvaluationId |-> NextRowid,
                     AICommentId |-> evaluation_data.AICommentId,
                     AlertId |-> evaluation_data.AlertId,
                     UserId |-> evaluation_data.UserId,
                     Grade |-> evaluation_data.Grade,
                     Notes |-> evaluation_data.Notes,
                     CreatedAt |-> utcnow]
            IN  /\ Len(rows) < MaxRows
                /\ rows' = Append(rows,
                       [evaluation EXCEPT !.CreatedAt = isoformat(utcnow)])
                /\ seq' = evaluation.EvaluationId
                /\ created' = Append(created, evaluation)
                /\ ret' = [kind |-> "ok", val |-> evaluation]

\* get_evaluations_by_alert(alert_id)
get_evaluations_by_alert(alert_id) ==
    /\ UNCHANGED <<dataVars, sessionVars>> /\ stdout' = <<>>
    /\ op' = "get_evaluations_by_alert"
    /\ arg' = alert_id
    /\ dbFile' = TRUE
    /\ IF ~TableExists
       THEN ret' = [kind |-> "OperationalError", val |-> None]
       ELSE \E p \in OrderByCreatedAtDesc(WhereAlert(alert_id)) :
                ret' = [kind |-> "ok", val |-> Fetch(p)]
    /\ UNCHANGED <<schema, rows, seq, clock, parquet, created>>

\* get_evaluations_by_comment(comment_id)
get_evaluations_by_comment(comment_id) ==
    /\ UNCHANGED <<dataVars, sessionVars>> /\ stdout' = <<>>
    /\ op' = "get_evaluations_by_comment"
    /\ arg' = comment_id
    /\ dbFile' = TRUE
    /\ IF ~TableExists
       THEN ret' = [kind |-> "OperationalError", val |-> None]
       ELSE \E p \in OrderByCreatedAtDesc(WhereComment(comment_id)) :
                ret' = [kind |-> "ok", val |-> Fetch(p)]
    /\ UNCHANGED <<schema, rows, seq, clock, parquet, created>>

\* get_evaluation_count
get_evaluation_count ==
    /\ UNCHANGED <<dataVars, sessionVars>> /\ stdout' = <<>>
    /\ op' = "get_evaluation_count"
    /\ arg' = None
    /\ dbFile' = TRUE
    /\ ret' = IF ~TableExists THEN [kind |-> "OperationalError", val |-> None]
              ELSE [kind |-> "ok", val |-> Len(rows)]
    /\ UNCHANGED <<schema, rows, seq, clock, parquet, created>>

\* SELECT COUNT(*) FROM evaluations WHERE AICommentId = ? [AND UserId = ?]
CountCommentAnyUser(comment_id, user_id) ==
    Cardinality({i \in 1..Len(rows) : rows[i].AICommentId = comment_id})
CountComment(comment_id, user_id) ==
    IF user_id # None
    THEN Cardinality({i \in 1..Len(rows) :
             rows[i].AICommentId = comment_id /\ rows[i].UserId = user_id})
    ELSE Cardinality({i \in 1..Len(rows) : rows[i].AICommentId = comment_id})

\* check_comment_evaluated(comment_id, user_id=None)
check_comment_evaluated(comment_id, user_id) ==
    /\ UNCHANGED <<dataVars, sessionVars>> /\ stdout' = <<>>
    /\ op' = "check_comment_evaluated"
    /\ arg' = <<comment_id, user_id>>
    /\ dbFile' = TRUE
    /\ ret' = IF ~TableExists THEN [kind |-> "OperationalError", val |-> None]
              ELSE [kind |-> "ok", val |-> CountComment(comment_id, user_id) > 0]
    /\ UNCHANGED <<schema, rows, seq, clock, parquet, created>>

\* the four SELECT COUNT statements of get_database_stats
CountDistinctUserIdWithNull == Cardinality({rows[i].UserId : i \in 1..Len(rows)})
CountDistinctUserId ==
    Cardinality({rows[i].UserId : i \in {k \in 1..Len(rows) : rows[k].UserId # None}})
CountDistinctAlertId == Cardinality({rows[i].AlertId : i \in 1..Len(rows)})
CountDistinctAICommentId == Cardinality({rows[i].AICommentId : i \in 1..Len(rows)})

\* get_database_stats: the value returned (the connection has created the file)
StatsNoExcept ==
    IF ~TableExists THEN [kind |-> "OperationalError", val |-> None]
    ELSE [kind |-> "ok",
          val |-> [total_evaluations |-> Len(rows),
                   unique_alerts_evaluated |-> CountDistinctAlertId,
                   unique_comments_evaluated |-> CountDistinctAICommentId,
                   unique_evaluators |-> CountDistinctUserId,
                   database_path |-> "state/eval.sqlite",
                   database_exists |-> TRUE]]
Stats ==
    IF ~TableExists
    THEN [kind |-> "ok",
          val |-> [error |-> "no such table: evaluations",
                   database_path |-> "state/eval.sqlite",
                   database_exists |-> TRUE]]
    ELSE [kind |-> "ok",
          val |-> [total_evaluations |-> Len(rows),
                   unique_alerts_evaluated |-> CountDistinctAlertId,
                   unique_comments_evaluated |-> CountDistinctAICommentId,
                   unique_evaluators |-> CountDistinctUserId,
                   database_path |-> "state/eval.sqlite",
                   database_exists |-> TRUE]]

get_database_stats ==
    /\ UNCHANGED <<dataVars, sessionVars>> /\ stdout' = <<>>
    /\ op' = "get_database_stats"
    /\ arg' = None
    /\ dbFile' = TRUE
    /\ ret' = Stats
    /\ UNCHANGED <<schema, rows, seq, clock, parquet, created>>

----------------------------------------------------------------------------
(* s3_sync.py: the configuration, the upload and the operations that read *)
(* the store.  A printed line is the sequence of its parts: the literal    *)
(* text and the values formatted into it.                                  *)

\* get_s3_config: st.secrets is read only for a setting os.environ lacks, and
\* raises when there is no secrets file; the except branch returns no setting
S3ConfigRaises ==
    /\ ~environ.secrets_toml
    /\ None \in {environ.ACCESS_KEY, environ.SECRET_KEY, environ.BUCKET_NAME}

S3Config ==
    IF S3ConfigRaises
    THEN [access_key |-> None, secret_key |-> None, bucket_name |-> None,
          region |-> "us-east-1"]
    ELSE [access_key |-> environ.ACCESS_KEY, secret_key |-> environ.SECRET_KEY,
          bucket_name |-> environ.BUCKET_NAME, region |-> "us-east-1"]

S3ConfigOutput ==
    << <<"Loading S3 configuration...">>,
       IF S3ConfigRaises
       THEN <<"Error loading S3 configuration: ", "No secrets found">>
       ELSE <<"S3 configuration loaded successfully.">> >>

get_s3_config ==
    /\ op' = "get_s3_config"
    /\ arg' = None
    /\ ret' = [kind |-> "ok", val |-> S3Config]
    /\ stdout' = S3ConfigOutput
    /\ UNCHANGED <<dbVars, dataVars, sessionVars>>

\* the names of the settings `not all([...])` finds missing
MissingParameters(config) ==
    SelectSeq(<<"bucket_name", "access_key", "secret_key">>,
              LAMBDA k : config[k] = None)

\* print(config): the repr of the dict, keys and values
PrintConfig(config) ==
    <<"access_key", config.access_key, "secret_key", config.secret_key,
      "bucket_name", config.bucket_name, "region", config.region>>

\* upload_to_s3(file_path, object_name=...): [val |-> the bool returned,
\* out |-> the lines printed]; exists: the file is there; transfer: whether
\* boto3 creates the client and upload_file returns without an exception
UploadToS3(file_path, exists, object_name, transfer) ==
    LET config == S3Config
        head == S3ConfigOutput \o <<PrintConfig(config)>>
    IN  IF MissingParameters(config) # <<>>
        THEN [val |-> FALSE,
              out |-> head \o
                  << <<"Error: Missing required parameters: ">>
                         \o MissingParameters(config),
                     <<"Set environment variables: AWS_ACCESS_KEY_ID, AWS_SECRET_ACCESS_KEY, AWS_S3_BUCKET">> >>]
        ELSE IF ~exists
        THEN [val |-> FALSE,
              out |-> head \o << <<"Error: File not found: ", file_path>> >>]
        ELSE IF transfer
        THEN [val |-> TRUE,
              out |-> head \o << <<"Uploaded ", file_path, " to s3://",
                                   config.bucket_name, "/", object_name>> >>]
        ELSE [val |-> FALSE, out |-> head \o << <<"Error uploading to S3">> >>]

\* python s3_sync.py upload <filepath>
upload_to_s3(file_path, exists, transfer) ==
    /\ op' = "upload_to_s3"
    /\ arg' = transfer
    /\ ret' = [kind |-> "ok",
               val |-> UploadToS3(file_path, exists, file_path, transfer).val]
    /\ stdout' = UploadToS3(file_path, exists, file_path, transfer).out
    /\ UNCHANGED <<dbVars, dataVars, sessionVars>>

\* export_evaluations_to_parquet: what it returns and the file it writes.
\* exported is <<>> for a None result, else the rows of the written file.
ExportInsertionOrder ==
    IF ~dbFile \/ ~TableExists \/ rows = <<>> THEN {<<>>}
    ELSE {rows}
ExportOutcomes ==
    IF ~dbFile \/ ~TableExists \/ rows = <<>> THEN {<<>>}
    ELSE {[j \in 1..Len(p) |-> rows[p[j]]] : p \in OrderByCreatedAtDesc(1..Len(rows))}

ExportName == clock \div 1000000      \* strftime('%Y%m%d_%H%M%S') of now

ExportOutput ==
    IF ~dbFile THEN << <<"Warning: Database file does not exist: ", "eval.sqlite">> >>
    ELSE IF ~TableExists
    THEN << <<"Error exporting evaluations to parquet: ", "no such table: evaluations">> >>
    ELSE IF rows = <<>> THEN << <<"No evaluations found in database">> >>
    ELSE << <<"Exported evaluations to ", "evaluations_<now>.parquet">> >>

export_evaluations_to_parquet ==
    /\ UNCHANGED <<dataVars, sessionVars>>
    /\ op' = "export_evaluations_to_parquet"
    /\ arg' = None
    /\ stdout' = ExportOutput
    /\ \E exported \in ExportOutcomes :
          /\ ret' = [kind |-> "ok", val |-> exported]
          /\ parquet' = IF exported = <<>> THEN parquet
                        ELSE parquet \cup {ExportName}
    /\ UNCHANGED <<dbFile, schema, rows, seq, clock, created>>

\* upload_evaluations_parquet; uploaded: whether the transfer to S3 succeeds
UnlinkAlways(success) == TRUE
UnlinkOnSuccess(success) == success

upload_evaluations_parquet(uploaded) ==
    /\ UNCHANGED <<dataVars, sessionVars>>
    /\ op' = "upload_evaluations_parquet"
    /\ arg' = uploaded
    /\ \E exported \in ExportOutcomes :
          IF exported = <<>>
          THEN /\ ret' = [kind |-> "ok", val |-> FALSE]
               /\ stdout' = ExportOutput
               /\ UNCHANGED parquet
          ELSE LET upload == UploadToS3("evaluations_<now>.parquet", TRUE,
                                 "CommentEvaluator/evaluations/evaluations_<now>.parquet",
                                 uploaded)
               IN  /\ ret' = [kind |-> "ok", val |-> upload.val]
                   /\ stdout' = ExportOutput \o upload.out \o
                         (IF upload.val
                          THEN << <<"Evaluations parquet uploaded to S3: ",
                                    "CommentEvaluator/evaluations/evaluations_<now>.parquet">>,
                                  <<"Cleaned up local file: ", "evaluations_<now>.parquet">> >>
                          ELSE <<>>)
                   /\ parquet' = IF UnlinkOnSuccess(upload.val)
                                 THEN parquet \ {ExportName}
                                 ELSE parquet \cup {ExportName}
    /\ UNCHANGED <<dbFile, schema, rows, seq, clock, created>>

\* upload_eval_db; uploaded: whether the transfer to S3 succeeds
upload_eval_db(uploaded) ==
    /\ UNCHANGED <<dataVars, sessionVars>>
    /\ op' = "upload_eval_db"
    /\ arg' = uploaded
    /\ LET upload == UploadToS3("eval.sqlite", TRUE, "eval.sqlite", uploaded)
       IN  IF ~dbFile
           THEN /\ ret' = [kind |-> "ok", val |-> FALSE]
                /\ stdout' = << <<"Warning: Database file does not exist: ", "eval.sqlite">>,
                                <<"This is normal if no evaluations have been submitted yet.">> >>
           ELSE /\ ret' = [kind |-> "ok", val |-> upload.val]
                /\ stdout' = << <<"Uploading evaluation database: ", "eval.sqlite">> >>
                      \o upload.out \o
                      << <<IF upload.val THEN "Database sync completed at "
                           ELSE "Database sync failed at ", "<now>">> >>
    /\ UNCHANGED <<dbFile, schema, rows, seq, clock, parquet, created>>

Next ==
    \/ Tick
    \/ \E g \in GradeInputs : NewEvaluationCreate(g)
    \/ init_database
    \/ ensure_database
    \/ \E ec \in EvaluationCreateObjects : create_evaluation(ec)
    \/ \E a \in Alerts : get_evaluations_by_alert(a)
    \/ \E c \in Comments : get_evaluations_by_comment(c)
    \/ get_evaluation_count
    \/ \E c \in Comments, u \in Users \cup {None} : check_comment_evaluated(c, u)
    \/ get_database_stats
    \/ export_evaluations_to_parquet
    \/ \E uploaded \in BOOLEAN : upload_evaluations_parquet(uploaded)
    \/ \E uploaded \in BOOLEAN : upload_eval_db(uploaded)

Spec == Init /\ [][Next]_vars

----------------------------------------------------------------------------
(* get_database_stats beside other sessions.  Its four SELECT statements   *)
(* run on one connection in autocommit mode (the sqlite3 module opens a    *)
(* transaction only before a data-changing statement), so each SELECT      *)
(* reads the rows committed when it runs, and a create_evaluation of       *)
(* another session can commit between two of them.                         *)

\* the counts in the order the function fetches them
StatsSelects ==
    <<Len(rows), CountDistinctAlertId, CountDistinctAICommentId, CountDistinctUserId>>

\* the next SELECT of the call in progress (the first one opens the
\* connection); the fourth is followed by the return
get_database_stats_select ==
    /\ UNCHANGED <<dataVars, environ, session_state>> /\ stdout' = <<>>
    /\ dbFile' = TRUE
    /\ UNCHANGED <<schema, rows, seq, clock, parquet, created>>
    /\ IF ~TableExists
       THEN /\ op' = "get_database_stats"
            /\ arg' = None
            /\ ret' = Stats
            /\ fetched' = <<>>
       ELSE LET counts == Append(fetched, StatsSelects[Len(fetched) + 1])
            IN  IF Len(counts) < Len(StatsSelects)
                THEN /\ op' = "SELECT"
                     /\ arg' = None
                     /\ ret' = [kind |-> "ok", val |-> None]
                     /\ fetched' = counts
                ELSE /\ op' = "get_database_stats"
                     /\ arg' = None
                     /\ ret' = [kind |-> "ok",
                                val |-> [total_evaluations |-> counts[1],
                                         unique_alerts_evaluated |-> counts[2],
                                         unique_comments_evaluated |-> counts[3],
                                         unique_evaluators |-> counts[4],
                                         database_path |-> "state/eval.sqlite",
                                         database_exists |-> TRUE]]
                     /\ fetched' = <<>>

NextStats ==
    \/ init_database
    \/ \E ec \in Constructed : create_evaluation(ec)
    \/ get_database_stats_select

SpecStats == Init /\ [][NextStats]_vars

----------------------------------------------------------------------------
(* io.py: the loaders and the queries over the measurement store.          *)
(* A DataFrame is [columns |-> whether it has its columns, rows |-> its    *)
(* rows]; pd.DataFrame() has neither.  An Optional[Dict] is a sequence of  *)
(* at most one record.                                                     *)

EmptyFrame == [columns |-> FALSE, rows |-> <<>>]

Exists(f) == local[f] # Absent          \* Path.exists()

\* bool() of a string cell: None and "" are false
Truthy(x) == x # None /\ x # ""

\* the code points of the strings that get sorted
StrCodes(s) ==
    CASE s = "a1" -> <<97, 49>>
      [] s = "a2" -> <<97, 50>>
      [] s = "a9" -> <<97, 57>>
      [] s = "a10" -> <<97, 49, 48>>
      [] s = "All" -> <<65, 108, 108>>
      [] s = "Brake" -> <<66, 114, 97, 107, 101>>
      [] s = "Engine" -> <<69, 110, 103, 105, 110, 101>>
      [] s = "T01" -> <<84, 48, 49>>
      [] s = "T02" -> <<84, 48, 50>>
      [] s = "both" -> <<98, 111, 116, 104>>
      [] s = "oil_only" -> <<111, 105, 108, 95, 111, 110, 108, 121>>
      [] s = "telemetry_only" ->
            <<116, 101, 108, 101, 109, 101, 116, 114, 121, 95, 111, 110, 108, 121>>
      [] s = "Cu" -> <<67, 117>>
      [] s = "Fe" -> <<70, 101>>
      [] s = "Si" -> <<83, 105>>

\* Python's < on two str
StrLess(a, b) == TextLess(StrCodes(a), StrCodes(b))

\* the elements of a list
Options(s) == {s[i] : i \in 1..Len(s)}

\* a stable sort of s: x comes before y when before[x, y], else in the order of s
SortBy(s, before) ==
    LET pos(i) == 1 + Cardinality({j \in 1..Len(s) :
                        before[s[j], s[i]] \/ (~before[s[i], s[j]] /\ j < i)})
    IN  [k \in 1..Len(s) |-> s[CHOOSE i \in 1..Len(s) : pos(i) = k]]

\* sorted(list of str)
sorted(s) == SortBy(s, [x \in Options(s), y \in Options(s) |-> StrLess(x, y)])

\* Series.unique() and DataFrame.drop_duplicates(): the first occurrences, in order
RECURSIVE unique(_)
unique(s) ==
    IF s = <<>> THEN <<>>
    ELSE LET u == unique(SubSeq(s, 1, Len(s) - 1))
         IN  IF \E i \in 1..Len(u) : u[i] = s[Len(s)] THEN u ELSE Append(u, s[Len(s)])

\* load_oil_measurements, load_telemetry_measurements, load_ai_comments:
\* pd.read_parquet raises on a missing file and the loader returns pd.DataFrame()
load_oil_measurements ==
    IF Exists(OIL_FILE) THEN [columns |-> TRUE, rows |-> oil] ELSE EmptyFrame
load_telemetry_measurements ==
    IF Exists(TELEMETRY_FILE) THEN [columns |-> TRUE, rows |-> telemetry] ELSE EmptyFrame
load_ai_comments ==
    IF Exists(COMMENTS_FILE) THEN [columns |-> TRUE, rows |-> comments] ELSE EmptyFrame

\* df.merge(oil_df, on='OilAlertId', how='left'): every alert row once per
\* matching (OilAlertId, OilMeter) pair, or once with a null OilMeter
RECURSIVE merge(_, _)
merge(df, oil_df) ==
    IF df = <<>> THEN <<>>
    ELSE LET r == Head(df)
             m == SelectSeq(oil_df, LAMBDA q : q[1] = r.OilAlertId)
             joined(OilMeter) ==
                 [AlertId |-> r.AlertId, UnitId |-> r.UnitId, Component |-> r.Component,
                  Label |-> r.Label, TimeStart |-> r.TimeStart,
                  OilAlertId |-> r.OilAlertId, TelAlertId |-> r.TelAlertId,
                  OilMeter |-> OilMeter]
         IN  (IF m = <<>> THEN <<joined(None)>>
              ELSE [j \in 1..Len(m) |-> joined(m[j][2])])
             \o merge(Tail(df), oil_df)

\* load_alerts: the alerts joined with the oil meters; any exception, that of
\* selecting OilAlertId and OilMeter from a DataFrame without columns included,
\* gives pd.DataFrame()
load_alerts ==
    IF ~Exists(ALERTS_FILE) THEN EmptyFrame
    ELSE LET oil_df == load_oil_measurements
         IN  IF ~oil_df.columns THEN EmptyFrame
             ELSE [columns |-> TRUE,
                   rows |-> merge(alerts,
                       unique([i \in 1..Len(oil_df.rows) |->
                           <<oil_df.rows[i].OilAlertId, oil_df.rows[i].OilMeter>>]))]

\* alerts_df['AlertId'].isin(comments_df['AlertId'].unique()), for one row
IsInAny(alert_id, comments_df) == TRUE
isin(alert_id, comments_df) ==
    \E i \in 1..Len(comments_df.rows) : comments_df.rows[i].AlertId = alert_id

\* the AlertId column of a DataFrame of alerts
AlertIdColumn(df) == [i \in 1..Len(df) |-> df[i].AlertId]

\* get_alert_details: the first row with the AlertId, as a dict
AlertDetails(alert_id) ==
    LET alerts_df == load_alerts
        alert_row == SelectSeq(alerts_df.rows, LAMBDA r : r.AlertId = alert_id)
    IN  IF alerts_df.rows = <<>> THEN <<>>
        ELSE IF alert_row = <<>> THEN <<>>
        ELSE <<alert_row[1]>>

get_alert_details(alert_id) ==
    /\ op' = "get_alert_details"
    /\ arg' = alert_id
    /\ ret' = [kind |-> "ok", val |-> AlertDetails(alert_id)]
    /\ UNCHANGED <<dbVars, dataVars, sessionVars>> /\ stdout' = <<>>

\* get_available_alerts
AvailableAlerts ==
    LET alerts_df == load_alerts
        comments_df == load_ai_comments
        filtered_alerts == SelectSeq(alerts_df.rows, LAMBDA r : isin(r.AlertId, comments_df))
    IN  IF alerts_df.rows = <<>> \/ comments_df.rows = <<>> THEN <<>>
        ELSE sorted(unique(AlertIdColumn(filtered_alerts)))

get_available_alerts ==
    /\ op' = "get_available_alerts"
    /\ arg' = None
    /\ ret' = [kind |-> "ok", val |-> AvailableAlerts]
    /\ UNCHANGED <<dbVars, dataVars, sessionVars>> /\ stdout' = <<>>

\* get_alerts_with_filters
AlertsWithFilters(component_filter, unit_filter, label_filter) ==
    LET alerts_df == load_alerts
        comments_df == load_ai_comments
        with_comments == SelectSeq(alerts_df.rows, LAMBDA r : isin(r.AlertId, comments_df))
        by_component ==
            IF Truthy(component_filter) /\ component_filter # "All"
            THEN SelectSeq(with_comments, LAMBDA r : r.Component = component_filter)
            ELSE with_comments
        by_unit ==
            IF Truthy(unit_filter) /\ unit_filter # "All"
            THEN SelectSeq(by_component, LAMBDA r : r.UnitId = unit_filter)
            ELSE by_component
        filtered_alerts ==
            IF Truthy(label_filter) /\ label_filter # "All"
            THEN SelectSeq(by_unit, LAMBDA r : r.Label = label_filter)
            ELSE by_unit
    IN  IF alerts_df.rows = <<>> \/ comments_df.rows = <<>> THEN <<>>
        ELSE sorted(unique(AlertIdColumn(filtered_alerts)))

get_alerts_with_filters(component_filter, unit_filter, label_filter) ==
    /\ op' = "get_alerts_with_filters"
    /\ arg' = <<component_filter, unit_filter, label_filter>>
    /\ ret' = [kind |-> "ok",
               val |-> AlertsWithFilters(component_filter, unit_filter, label_filter)]
    /\ UNCHANGED <<dbVars, dataVars, sessionVars>> /\ stdout' = <<>>

\* get_oil_data_for_alert
OilDataForAlert(alert_id) ==
    LET alert_details == AlertDetails(alert_id)
        oil_df == load_oil_measurements
    IN  IF alert_details = <<>> \/ ~Truthy(alert_details[1].OilAlertId) THEN <<>>
        ELSE IF oil_df.rows = <<>> THEN <<>>
        ELSE SelectSeq(oil_df.rows, LAMBDA r : r.OilAlertId = alert_details[1].OilAlertId)

\* GroupBy.last() of one column of a group: its last cell that is not null
last(cells, null) ==
    LET notna == SelectSeq(cells, LAMBDA c : c # null)
    IN  IF notna = <<>> THEN null ELSE notna[Len(notna)]

\* sort_values(['IsLimitReached', 'ElementName'], ascending=[False, True])
ByElementName(x, y) == StrLess(x.ElementName, y.ElementName)
BreachedFirst(x, y) ==
    \/ x.IsLimitReached /\ ~y.IsLimitReached
    \/ x.IsLimitReached = y.IsLimitReached /\ StrLess(x.ElementName, y.ElementName)

\* get_oil_summary_table.  sort_values('SampleDate') is modelled as a stable
\* sort; the samples of one element tried here have distinct dates.
OilSummaryTable(alert_id) ==
    LET oil_df == OilDataForAlert(alert_id)
        by_date == SortBy(oil_df, [x \in Options(oil_df), y \in Options(oil_df) |->
                                       x.SampleDate < y.SampleDate])
        names == sorted(unique([i \in 1..Len(by_date) |-> by_date[i].ElementName]))
        group(n) == SelectSeq(by_date, LAMBDA r : r.ElementName = n)
        latest(g) ==
            [ElementName |-> g[1].ElementName,
             Value |-> g[Len(g)].Value,
             LimitValue |-> last([i \in 1..Len(g) |-> g[i].LimitValue], NaN),
             BreachLevel |-> last([i \in 1..Len(g) |-> g[i].BreachLevel], None),
             IsLimitReached |-> g[Len(g)].IsLimitReached]
        latest_df == [k \in 1..Len(names) |-> latest(group(names[k]))]
        summary_df == SortBy(latest_df, [x \in Options(latest_df), y \in Options(latest_df) |->
                                            BreachedFirst(x, y)])
    IN  [k \in 1..Len(summary_df) |->
            [ElementName |-> summary_df[k].ElementName, Value |-> summary_df[k].Value,
             LimitValue |-> summary_df[k].LimitValue,
             BreachLevel |-> summary_df[k].BreachLevel]]

get_oil_summary_table(alert_id) ==
    /\ op' = "get_oil_summary_table"
    /\ arg' = alert_id
    /\ ret' = [kind |-> "ok", val |-> OilSummaryTable(alert_id)]
    /\ UNCHANGED <<dbVars, dataVars, sessionVars>> /\ stdout' = <<>>

WindowHours == 48

\* bool() of a datetime cell: neither Timestamp nor NaT defines __bool__
TruthyTime(t) == TRUE

\* (Timestamp >= time_start - 48h) & (Timestamp <= time_start + 48h);
\* NaT - timedelta is NaT and every comparison with NaT is False
InWindow(Timestamp, time_start) ==
    /\ time_start # NaT
    /\ Timestamp >= time_start[1] - WindowHours
    /\ Timestamp <= time_start[1] + WindowHours

\* get_telemetry_data_for_alert
TelemetryDataForAlert(alert_id) ==
    LET alert_details == AlertDetails(alert_id)
        telemetry_df == load_telemetry_measurements
    IN  IF alert_details = <<>> \/ ~Truthy(alert_details[1].TelAlertId) THEN <<>>
        ELSE IF telemetry_df.rows = <<>> THEN <<>>
        ELSE LET tel_alert_id == alert_details[1].TelAlertId
                 time_start == alert_details[1].TimeStart
                 filtered_df == SelectSeq(telemetry_df.rows,
                                    LAMBDA r : r.TelAlertId = tel_alert_id)
             IN  IF TruthyTime(time_start) /\ filtered_df # <<>>
                 THEN SelectSeq(filtered_df, LAMBDA r : InWindow(r.Timestamp, time_start))
                 ELSE filtered_df

get_telemetry_data_for_alert(alert_id) ==
    /\ op' = "get_telemetry_data_for_alert"
    /\ arg' = alert_id
    /\ ret' = [kind |-> "ok", val |-> TelemetryDataForAlert(alert_id)]
    /\ UNCHANGED <<dbVars, dataVars, sessionVars>> /\ stdout' = <<>>

\* Series.max() of a non-empty column of numbers
Max(column) ==
    CHOOSE m \in {column[i] : i \in 1..Len(column)} :
        \A i \in 1..Len(column) : column[i] <= m

\* max_excess of one variable's rows
MaxExcessNoFloor(var_data) ==
    LET upper_breaches == SelectSeq(var_data, LAMBDA r : r.UpperLimitValue # NaN)
        excess_values == [i \in 1..Len(upper_breaches) |->
                             upper_breaches[i].Value - upper_breaches[i].UpperLimitValue[1]]
    IN  IF upper_breaches # <<>> THEN Max(excess_values) ELSE 0
MaxExcess(var_data) ==
    LET upper_breaches == SelectSeq(var_data, LAMBDA r : r.UpperLimitValue # NaN)
        excess_values == [i \in 1..Len(upper_breaches) |->
                             upper_breaches[i].Value - upper_breaches[i].UpperLimitValue[1]]
    IN  IF upper_breaches # <<>> /\ Max(excess_values) > 0 THEN Max(excess_values) ELSE 0

\* sort_values(['AnyLimitReached', 'MaxExcess'], ascending=[False, False])
WorstFirst(x, y) ==
    \/ x.AnyLimitReached /\ ~y.AnyLimitReached
    \/ x.AnyLimitReached = y.AnyLimitReached /\ x.MaxExcess > y.MaxExcess

\* get_telemetry_breaches_table
TelemetryBreachesTable(alert_id) ==
    LET tel_df == TelemetryDataForAlert(alert_id)
        names == unique([i \in 1..Len(tel_df) |-> tel_df[i].VariableName])
        stats(var_name) ==
            LET var_data == SelectSeq(tel_df, LAMBDA r : r.VariableName = var_name)
            IN  [VariableName |-> var_name,
                 MaxExcess |-> MaxExcess(var_data),
                 AnyLimitReached |-> \E i \in 1..Len(var_data) : var_data[i].IsLimitReached]
        breach_stats == [k \in 1..Len(names) |-> stats(names[k])]
        breach_df == SortBy(breach_stats, [x \in Options(breach_stats),
                                           y \in Options(breach_stats) |-> WorstFirst(x, y)])
    IN  IF tel_df = <<>> THEN <<>>
        ELSE SelectSeq(breach_df, LAMBDA b : b.AnyLimitReached)

get_telemetry_breaches_table(alert_id) ==
    /\ op' = "get_telemetry_breaches_table"
    /\ arg' = alert_id
    /\ ret' = [kind |-> "ok", val |-> TelemetryBreachesTable(alert_id)]
    /\ UNCHANGED <<dbVars, dataVars, sessionVars>> /\ stdout' = <<>>

\* the measurement store the queries run against: some files are missing, or
\* the alerts and comments vary, or the oil samples, or the telemetry samples
InitIO ==
    /\ dbFile = FALSE
    /\ schema = <<>>
    /\ rows = <<>>
    /\ seq = 0
    /\ clock = 0
    /\ parquet = {}
    /\ created = <<>>
    /\ requested = {}
    /\ page = Closed
    /\ op = "start"
    /\ arg = None
    /\ ret = [kind |-> "ok", val |-> None]
    /\ InitSession
    /\ \/ /\ local \in {l \in [DataFiles -> {Absent, <<0>>}] :
                           Cardinality({f \in DataFiles : l[f] = Absent}) <= MaxAbsent}
          /\ alerts = AlertRows
          /\ comments = CommentRows
          /\ oil = OilRows
          /\ telemetry = TelemetryRows
       \/ /\ local = [f \in DataFiles |-> <<0>>]
          /\ alerts \in SubSeqs(AlertRows)
          /\ comments \in SubSeqs(CommentRows)
          /\ oil = OilRows
          /\ telemetry = TelemetryRows
       \/ /\ local = [f \in DataFiles |-> <<0>>]
          /\ alerts = AlertRows
          /\ comments = CommentRows
          /\ oil \in SubSeqs(OilRows)
          /\ telemetry = TelemetryRows
       \/ /\ local = [f \in DataFiles |-> <<0>>]
          /\ alerts = AlertRows
          /\ comments = CommentRows
          /\ oil = OilRows
          /\ telemetry \in SubSeqs(TelemetryRows)

NextIO ==
    \/ \E a \in AlertIds : get_alert_details(a)
    \/ get_available_alerts
    \/ \E c \in ComponentFilters, u \in UnitFilters, l \in LabelFilters :
          get_alerts_with_filters(c, u, l)
    \/ \E a \in AlertIds : get_oil_summary_table(a)
    \/ \E a \in AlertIds : get_telemetry_data_for_alert(a)
    \/ \E a \in AlertIds : get_telemetry_breaches_table(a)

SpecIO == InitIO /\ [][NextIO]_vars

----------------------------------------------------------------------------
(* s3_sync.download_data_files and the two pages, streamlit_app.py and     *)
(* pages/1_Review.py.  Streamlit runs a page's main() from top to bottom   *)
(* on every visit; either page can be opened at any time.                  *)

DaySeconds == 86400

\* the files download_data_files calls download_from_s3 for: the else branch
\* of `if local_path.exists()`
Requested == {f \in DataFiles : local[f] = Absent}

\* download_from_s3 returns False without a request when a setting is missing;
\* fetchable: the objects read_from_s3 returns a frame for
Downloaded(fetchable) ==
    IF MissingParameters(S3Config) # <<>> THEN {} ELSE Requested \cap fetchable

\* success_count after the loop
success_count(fetchable) ==
    Cardinality({f \in DataFiles : local[f] # Absent /\ local[f][1] < DaySeconds})
    + Cardinality(Downloaded(fetchable))

\* a downloaded file is written now
download_data_files_effect(fetchable) ==
    /\ requested' = Requested
    /\ local' = [f \in DataFiles |->
                    IF f \in Downloaded(fetchable) THEN <<0>> ELSE local[f]]

\* the lines printed for one file of required_files
DownloadOutput(f, fetchable) ==
    << <<"Downloading ", f>> >> \o
    (IF local[f] # Absent
     THEN << <<"File already exists locally.">> >> \o
          (IF local[f][1] < DaySeconds
           THEN << <<"Skipping ", f, " (already up to date)">> >> ELSE <<>>)
     ELSE << <<"File does not exist locally...">> >> \o
          (IF MissingParameters(S3Config) # <<>>
           THEN << <<"Error: Missing required parameters: ">>
                      \o MissingParameters(S3Config) >>
           ELSE <<>>) \o
          << <<IF f \in Downloaded(fetchable) THEN "Downloaded "
               ELSE "Failed to download ", f>> >>)

download_data_files(fetchable) ==
    /\ op' = "download_data_files"
    /\ arg' = None
    /\ download_data_files_effect(fetchable)
    /\ ret' = [kind |-> "ok",
               val |-> IF success_count(fetchable) = Len(required_files) THEN TRUE
                       ELSE success_count(fetchable) > 0]
    /\ stdout' = S3ConfigOutput \o << <<"Downloading data files from S3...">> >>
                 \o DownloadOutput(required_files[1], fetchable)
                 \o DownloadOutput(required_files[2], fetchable)
                 \o DownloadOutput(required_files[3], fetchable)
                 \o DownloadOutput(required_files[4], fetchable)
                 \o << <<IF success_count(fetchable) = Len(required_files)
                         THEN "All data files downloaded successfully"
                         ELSE "Downloaded some of the files">> >>
    /\ UNCHANGED <<dbVars, alerts, oil, telemetry, comments, page, sessionVars>>

\* validate_data_files, on the files as they are after the step
validate_data_files == [f \in DataFiles |-> local'[f] # Absent]

\* streamlit_app.main up to the data validation of the sidebar
streamlit_app_main(fetchable) ==
    /\ op' = "streamlit_app.main"
    /\ arg' = None
    /\ ensure_database_effect
    /\ download_data_files_effect(fetchable)
    /\ page' = IF \A f \in DataFiles : validate_data_files[f]
               THEN [Closed EXCEPT !.stage = "main"]
               ELSE [Closed EXCEPT !.stage = "stopped"]
    /\ ret' = [kind |-> "ok", val |-> None]
    /\ stdout' = <<>>
    /\ UNCHANGED <<clock, parquet, created, alerts, oil, telemetry, comments,
                   sessionVars>>

\* the options of one filter: 'All' and the sorted non-null values of the column
FilterOptions(column) ==
    <<"All">> \o sorted(unique(SelectSeq(column, LAMBDA x : x # None)))

\* the option lists of the alerts that have comments
OptionLists(filtered_alerts) ==
    IF filtered_alerts = <<>>
    THEN [components |-> <<>>, units |-> <<>>, labels |-> <<>>]
    ELSE [components |-> FilterOptions([i \in 1..Len(filtered_alerts) |->
                                           filtered_alerts[i].Component]),
          units |-> FilterOptions([i \in 1..Len(filtered_alerts) |->
                                      filtered_alerts[i].UnitId]),
          labels |-> FilterOptions([i \in 1..Len(filtered_alerts) |->
                                       filtered_alerts[i].Label])]

\* get_alert_filter_options
AlertFilterOptions ==
    LET alerts_df == load_alerts
        comments_df == load_ai_comments
    IN  IF alerts_df.rows = <<>> \/ comments_df.rows = <<>>
        THEN [components |-> <<>>, units |-> <<>>, labels |-> <<>>]
        ELSE OptionLists(SelectSeq(alerts_df.rows,
                                   LAMBDA r : isin(r.AlertId, comments_df)))

\* get_comments_for_alert
CommentsForAlert(alert_id) ==
    SelectSeq(load_ai_comments.rows, LAMBDA r : r.AlertId = alert_id)

\* ---- pages/1_Review.py: one script run ----
\* A run is started by opening the page or by one widget event:
\* [widget |-> the widget used, value |-> the option chosen or the comment
\* graded, storage |-> "ok" or "locked" (the database during a submission)].
NoEvent == [widget |-> "none", value |-> None, storage |-> "ok"]

\* st.session_state.get(key, default)
SessionGet(ss, key, default) == IF ss[key] = None THEN default ELSE ss[key]

\* a filter selectbox: the option the evaluator chooses in this run, else the
\* option at `index`, which is the stored value's or 0
FilterValue(options, stored, event, widget) ==
    IF event.widget = widget /\ event.value \in Options(options) THEN event.value
    ELSE IF stored \in Options(options) THEN stored
    ELSE options[1]

\* st.selectbox(..., available_alerts, key="alert_selector"): the choice made
\* in this run, else the value the widget holds; a new widget, or one whose
\* options changed, shows the first option (keep: the installed Streamlit
\* keeps a value that is still among the changed options)
AlertSelector(available_alerts, ss, event, keep) ==
    IF event.widget = "alert_selector" THEN event.value
    ELSE IF ss.alert_selector = None THEN available_alerts[1]
    ELSE IF ss.alert_selector_options = available_alerts THEN ss.alert_selector
    ELSE IF keep /\ ss.alert_selector \in Options(available_alerts)
    THEN ss.alert_selector
    ELSE available_alerts[1]

\* the state of a widget that a run does not render is discarded
Dropped(ss) == [ss EXCEPT !.alert_selector = None, !.alert_selector_options = <<>>]

\* available_alerts[(available_alerts.index(x) + 1) % len(available_alerts)]
Successor(list, x) ==
    LET current_idx == CHOOSE i \in 1..Len(list) :
                           list[i] = x /\ \A j \in 1..(i - 1) : list[j] # x
    IN  list[(current_idx % Len(list)) + 1]

\* "Use session state for alert selection if available and filters match"
OverrideAnyAlert(ss, selected_component, selected_unit, selected_label, available_alerts) ==
    /\ ss.selected_alert # None
    /\ ss.component_filter = selected_component
    /\ ss.unit_filter = selected_unit
    /\ ss.label_filter = selected_label
Override(ss, selected_component, selected_unit, selected_label, available_alerts) ==
    /\ ss.selected_alert # None
    /\ ss.component_filter = selected_component
    /\ ss.unit_filter = selected_unit
    /\ ss.label_filter = selected_label
    /\ ss.selected_alert \in Options(available_alerts)

\* {eval.AICommentId for eval in get_evaluations_by_alert(alert_id)}
EvaluatedComments(alert_id, table) ==
    {table[i].AICommentId : i \in {k \in 1..Len(table) : table[k].AlertId = alert_id}}

\* the exceptions the submit handler can catch, with their str()
ValueErrorOf(Grade) ==
    [kind |-> "ValueError", message |-> "Grade must be between 1-7, got <Grade>"]
Locked == [kind |-> "OperationalError", message |-> "database is locked"]

\* except Exception as e: st.error(f"Error submitting evaluation: {e}")
ErrorTextOnly(e) == <<"Error submitting evaluation: ">>
ErrorText(e) == <<"Error submitting evaluation: ", e.message>>

\* what a run ends with: the session state, the page shown, whether it ended
\* in st.rerun(), and the EvaluationCreate it passed to create_evaluation
Outcome(ss, shown, rerun, insert) ==
    [ss |-> ss, page |-> shown, rerun |-> rerun, insert |-> insert]

PageAt(stage, selected_alert, selected, available_alerts) ==
    [Closed EXCEPT !.stage = stage, !.selected_alert = selected_alert,
                   !.selected_component = selected[1],
                   !.selected_unit = selected[2],
                   !.selected_label = selected[3],
                   !.available_alerts = available_alerts]

\* the connection of ensure_database has created a missing table
TableReady == ~dbFile \/ TableExists

\* the rest of display_comments_evaluation(alert_id) once the comments are
\* there; shown: the counts, forms and button rendered
comments_evaluation(alert_id, ss, event, shown) ==
    IF event.widget = "submit" /\ event.value \in shown.forms
    THEN IF event.storage = "ok"
         THEN Outcome(ss, shown, TRUE,
                      <<[AICommentId |-> event.value, AlertId |-> alert_id,
                         Grade |-> MaxGrade, UserId |-> None, Notes |-> None]>>)
         ELSE Outcome(ss, [shown EXCEPT !.message = ErrorText(Locked)], FALSE, <<>>)
    ELSE IF event.widget = "bottom_next" /\ shown.next_alert
    THEN LET current_filtered_alerts ==
                 AlertsWithFilters(SessionGet(ss, "component_filter", "All"),
                                   SessionGet(ss, "unit_filter", "All"),
                                   SessionGet(ss, "label_filter", "All"))
         IN  IF alert_id \in Options(current_filtered_alerts)
             THEN Outcome([ss EXCEPT !.selected_alert =
                                         Successor(current_filtered_alerts, alert_id)],
                          shown, TRUE, <<>>)
             ELSE Outcome(ss, shown, FALSE, <<>>)
    ELSE Outcome(ss, shown, FALSE, <<>>)

\* display_comments_evaluation(alert_id); table: the rows of evaluations
display_comments_evaluation(alert_id, ss, event, table, base) ==
    LET comments_df == CommentsForAlert(alert_id)
        evaluated_comments == EvaluatedComments(alert_id, table)
    IN  IF comments_df = <<>>
        THEN Outcome(ss, [base EXCEPT !.stage = "no_comments"], FALSE, <<>>)
        ELSE IF ~TableReady       \* get_evaluations_by_alert raises
        THEN Outcome(ss, [base EXCEPT !.stage = "exception"], FALSE, <<>>)
        ELSE comments_evaluation(alert_id, ss, event,
                 [base EXCEPT
                     !.comments_found = Len(comments_df),
                     !.already_evaluated = Cardinality(evaluated_comments),
                     !.forms = {comments_df[i].AICommentId : i \in 1..Len(comments_df)}
                                   \ evaluated_comments,
                     !.next_alert = /\ Cardinality(evaluated_comments) > 0
                                    /\ Cardinality(evaluated_comments) = Len(comments_df)])

\* main() from get_alert_details on
main_details(selected_alert, ss, event, table, base, alert_details) ==
    IF alert_details = <<>>
    THEN Outcome(ss, [base EXCEPT !.stage = "no_details"], FALSE, <<>>)
    ELSE display_comments_evaluation(selected_alert, ss, event, table, base)

\* main() from the alert selection on; ss holds the selected filters
main_selection(ss, event, keep, table, selected, available_alerts) ==
    LET widget_alert == AlertSelector(available_alerts, ss, event, keep)
        ss2 == [ss EXCEPT !.alert_selector = widget_alert,
                          !.alert_selector_options = available_alerts]
        selected_alert ==
            IF Override(ss2, selected[1], selected[2], selected[3], available_alerts)
            THEN ss2.selected_alert ELSE widget_alert
    IN  IF available_alerts = <<>>
        THEN Outcome(Dropped(ss), PageAt("no_match", None, selected, <<>>),
                     FALSE, <<>>)
        ELSE IF event.widget = "next"
        THEN Outcome([ss2 EXCEPT !.selected_alert =
                                     Successor(available_alerts, widget_alert)],
                     Closed, TRUE, <<>>)
        ELSE main_details(selected_alert, ss2, event, table,
                          PageAt("forms", selected_alert, selected, available_alerts),
                          AlertDetails(selected_alert))

\* main() from the filters on
main_filters(ss, event, keep, table, filter_options) ==
    LET selected_component ==
            FilterValue(filter_options.components,
                        SessionGet(ss, "component_filter", "All"), event, "component")
        selected_unit ==
            FilterValue(filter_options.units,
                        SessionGet(ss, "unit_filter", "All"), event, "unit")
        selected_label ==
            FilterValue(filter_options.labels,
                        SessionGet(ss, "label_filter", "All"), event, "label")
    IN  IF filter_options.components = <<>>
        THEN Outcome(Dropped(ss), [Closed EXCEPT !.stage = "no_alerts"], FALSE, <<>>)
        ELSE IF event.widget = "reset"
        THEN Outcome(EmptySession, Closed, TRUE, <<>>)
        ELSE main_selection([ss EXCEPT !.component_filter = selected_component,
                                       !.unit_filter = selected_unit,
                                       !.label_filter = selected_label],
                            event, keep, table,
                            <<selected_component, selected_unit, selected_label>>,
                            AlertsWithFilters(selected_component, selected_unit,
                                              selected_label))

\* main() of the page, after ensure_database
RunPage(ss, event, keep, table) ==
    main_filters(ss, event, keep, table, AlertFilterOptions)

\* the evaluations table after create_evaluation(evaluation_data)
Inserted(evaluation_data) ==
    Append(rows, [EvaluationId |-> NextRowid,
                  AICommentId |-> evaluation_data.AICommentId,
                  AlertId |-> evaluation_data.AlertId,
                  UserId |-> evaluation_data.UserId,
                  Grade |-> evaluation_data.Grade,
                  Notes |-> evaluation_data.Notes,
                  CreatedAt |-> isoformat(utcnow)])

\* the end of a visit: the rows inserted and what the last run left
VisitEnd(name, argument, first, final) ==
    /\ op' = name
    /\ arg' = argument
    /\ ret' = [kind |-> "ok", val |-> None]
    /\ stdout' = <<>>
    /\ session_state' = final.ss
    /\ page' = final.page
    /\ IF first.insert = <<>>
       THEN ensure_database_effect /\ UNCHANGED created
       ELSE /\ dbFile /\ Len(rows) < MaxRows
            /\ UNCHANGED <<dbFile, schema>>
            /\ rows' = Inserted(first.insert[1])
            /\ seq' = NextRowid
            /\ created' = Append(created,
                   [Inserted(first.insert[1])[Len(rows) + 1]
                        EXCEPT !.CreatedAt = utcnow])
    /\ UNCHANGED <<clock, parquet, local, alerts, oil, telemetry, comments,
                   requested, environ, fetched>>

\* the run st.rerun() starts, if the first run ended in one
VisitRerun(name, argument, keep, first) ==
    VisitEnd(name, argument, first,
             IF first.rerun
             THEN RunPage(first.ss, NoEvent, keep,
                          IF first.insert = <<>> THEN rows
                          ELSE Inserted(first.insert[1]))
             ELSE first)

\* The run an event starts, followed by the run st.rerun() starts.
\* ensure_database comes first; a submission is made from a form an earlier
\* run rendered, so the database file is there.
Visit(name, argument, event, keep) ==
    VisitRerun(name, argument, keep, RunPage(session_state, event, keep, rows))

\* the page is opened or refreshed
Review_main ==
    \E keep \in BOOLEAN : Visit("Review.main", None, NoEvent, keep)

\* the evaluator chooses another option of a filter (one the data offers)
select_component(v) ==
    /\ page.selected_component \notin {None, v}
    /\ \E keep \in BOOLEAN :
          Visit("Review.component", None,
                [widget |-> "component", value |-> v, storage |-> "ok"], keep)

select_unit(v) ==
    /\ page.selected_unit \notin {None, v}
    /\ \E keep \in BOOLEAN :
          Visit("Review.unit", None,
                [widget |-> "unit", value |-> v, storage |-> "ok"], keep)

select_label(v) ==
    /\ page.selected_label \notin {None, v}
    /\ \E keep \in BOOLEAN :
          Visit("Review.label", None,
                [widget |-> "label", value |-> v, storage |-> "ok"], keep)

\* the evaluator chooses another alert in "Select Alert to Evaluate"
select_alert(alert_id) ==
    /\ alert_id \in Options(page.available_alerts)
    /\ alert_id # session_state.alert_selector
    /\ \E keep \in BOOLEAN :
          Visit("Review.alert_selector", alert_id,
                [widget |-> "alert_selector", value |-> alert_id, storage |-> "ok"],
                keep)

\* the "Next Alert" button beside the selector
press_next_alert ==
    /\ page.available_alerts # <<>>
    /\ \E keep \in BOOLEAN :
          Visit("Review.next_alert", None,
                [widget |-> "next", value |-> None, storage |-> "ok"], keep)

\* the "Reset Filters" button
press_reset_filters ==
    /\ page.selected_component # None
    /\ \E keep \in BOOLEAN :
          Visit("Review.reset_filters", None,
                [widget |-> "reset", value |-> None, storage |-> "ok"], keep)

\* "Submit Evaluation" of the form of one comment
submit_evaluation(comment_id, storage) ==
    /\ page.stage = "forms"
    /\ comment_id \in page.forms
    /\ \E keep \in BOOLEAN :
          Visit("Review.submit", None,
                [widget |-> "submit", value |-> comment_id, storage |-> storage],
                keep)

\* the "Next Alert" button shown when every comment of the alert is evaluated
press_next_alert_done ==
    /\ page.next_alert
    /\ \E keep \in BOOLEAN :
          Visit("Review.next_alert_done", None,
                [widget |-> "bottom_next", value |-> None, storage |-> "ok"], keep)

\* the application started with any of the data files missing, fresh or stale
InitApp ==
    /\ dbFile = FALSE
    /\ schema = <<>>
    /\ rows = <<>>
    /\ seq = 0
    /\ clock = 0
    /\ parquet = {}
    /\ created = <<>>
    /\ local \in [DataFiles -> {Absent} \cup {<<age>> : age \in FileAges}]
    /\ alerts = AlertRows
    /\ oil = OilRows
    /\ telemetry = TelemetryRows
    /\ comments = CommentRows
    /\ requested = {}
    /\ page = Closed
    /\ op = "start"
    /\ arg = None
    /\ ret = [kind |-> "ok", val |-> None]
    /\ InitSession

NextApp ==
    \/ \E fetchable \in SUBSET DataFiles : download_data_files(fetchable)
    \/ \E fetchable \in SUBSET DataFiles : streamlit_app_main(fetchable)
    \/ Review_main

SpecApp == InitApp /\ [][NextApp]_vars

----------------------------------------------------------------------------
(* The Review page in one browser session, all data files in place.        *)
(* SpecReview runs the navigation and the submissions of the page;         *)
(* SpecGrading runs the page on its first alert while evaluations are also *)
(* created through create_evaluation directly.                             *)

\* ai_comments.parquet with a comment for each of the three alerts
ReviewComments == CommentRows \o <<[AICommentId |-> "c3", AlertId |-> "a10"]>>

\* the objects passed to create_evaluation directly: two comments graded for
\* alert a1, and one whose Grade was set outside the range after construction
ReviewCreates ==
    { [AICommentId |-> "c1", AlertId |-> "a1", Grade |-> 7, UserId |-> "u1", Notes |-> "n1"],
      [AICommentId |-> "c2", AlertId |-> "a1", Grade |-> 7, UserId |-> None, Notes |-> "n1"],
      [AICommentId |-> "c1", AlertId |-> "a1", Grade |-> 8, UserId |-> "u1", Notes |-> "n1"] }

InitReview ==
    /\ dbFile = FALSE
    /\ schema = <<>>
    /\ rows = <<>>
    /\ seq = 0
    /\ clock = 0
    /\ parquet = {}
    /\ created = <<>>
    /\ local = [f \in DataFiles |-> <<0>>]
    /\ alerts = AlertRows
    /\ oil = OilRows
    /\ telemetry = TelemetryRows
    /\ comments = ReviewComments
    /\ requested = {}
    /\ page = Closed
    /\ op = "start"
    /\ arg = None
    /\ ret = [kind |-> "ok", val |-> None]
    /\ InitSession

NextReview ==
    \/ Review_main
    \/ \E v \in ComponentFilters \ {None} : select_component(v)
    \/ \E v \in UnitFilters \ {None} : select_unit(v)
    \/ \E v \in LabelFilters \ {None} : select_label(v)
    \/ \E a \in AlertIds : select_alert(a)
    \/ press_next_alert
    \/ press_reset_filters
    \/ \E c \in {"c1", "c2", "c3"}, storage \in {"ok", "locked"} :
          submit_evaluation(c, storage)
    \/ press_next_alert_done

SpecReview == InitReview /\ [][NextReview]_vars

NextGrading ==
    \/ Tick
    \/ Review_main
    \/ \E c \in {"c1", "c2", "c3"}, storage \in {"ok", "locked"} :
          submit_evaluation(c, storage)
    \/ \E ec \in ReviewCreates : create_evaluation(ec)

SpecGrading == InitReview /\ [][NextGrading]_vars

----------------------------------------------------------------------------
(* The synchronisation with object storage, run from the command line, the *)
(* daily job or the buttons of the main page, under any of the settings,   *)
(* while evaluations are being created.                                    *)

InitSync ==
    /\ dbFile = FALSE
    /\ schema = <<>>
    /\ rows = <<>>
    /\ seq = 0
    /\ clock = 0
    /\ parquet = {}
    /\ created = <<>>
    /\ local = [f \in DataFiles |-> Absent]
    /\ alerts = AlertRows
    /\ oil = OilRows
    /\ telemetry = TelemetryRows
    /\ comments = CommentRows
    /\ requested = {}
    /\ page = Closed
    /\ op = "start"
    /\ arg = None
    /\ ret = [kind |-> "ok", val |-> None]
    /\ environ \in Environs
    /\ stdout = <<>>
    /\ session_state = EmptySession
    /\ fetched = <<>>

NextSync ==
    \/ Tick
    \/ init_database
    \/ \E ec \in {c \in Constructed : c.UserId = "u1"} : create_evaluation(ec)
    \/ get_s3_config
    \/ \E exists \in BOOLEAN, transfer \in BOOLEAN :
          upload_to_s3("notes.txt", exists, transfer)
    \/ export_evaluations_to_parquet
    \/ \E uploaded \in BOOLEAN : upload_evaluations_parquet(uploaded)
    \/ \E uploaded \in BOOLEAN : upload_eval_db(uploaded)
    \/ \E fetchable \in {{}, DataFiles} : download_data_files(fetchable)

SpecSync == InitSync /\ [][NextSync]_vars

----------------------------------------------------------------------------
(* Properties.                                                             *)

\* the schema init_database is meant to leave: the table and one index each
\* on AICommentId, AlertId and CreatedAt
SchemaComplete ==
    /\ Len(schema) = 4
    /\ \A n \in {"evaluations", "idx_eval_comment", "idx_eval_alert", "idx_eval_created"} :
          Cardinality({i \in 1..Len(schema) : schema[i] = n}) = 1

\* position in the call history of the create_evaluation call that returned e
CallIndex(e) == CHOOSE i \in 1..Len(created) : created[i].EvaluationId = e.EvaluationId

\* C1: a Grade outside [1,7] makes both the EvaluationCreate constructor and
\* create_evaluation (given an object whose Grade was changed after construction)
\* fail with the validation error (ValueError), which is raised before the
\* INSERT, and the rows of evaluations are unchanged.
C1_InvalidGradeRejected ==
    [][ (op' \in {"EvaluationCreate", "create_evaluation"} /\ arg' \notin 1..7)
           => (ret'.kind = "ValueError" /\ rows' = rows /\ seq' = seq) ]_vars

C1_Witness ==
    /\ op = "create_evaluation" /\ arg = 8 /\ ret.kind = "ValueError"
    /\ SchemaComplete /\ Len(rows) >= 1

\* C2: the EvaluationIds returned by successful create_evaluation calls are the
\* rowids the store gave the inserted rows, and each is strictly greater than
\* (hence different from) every one returned earlier.
C2_IdsStrictlyIncreasing ==
    /\ Len(created) = Len(rows)
    /\ \A i \in 1..Len(created) : created[i].EvaluationId = rows[i].EvaluationId
    /\ \A i, j \in 1..Len(created) :
          i < j => created[i].EvaluationId < created[j].EvaluationId

C2_Witness ==
    /\ op = "create_evaluation" /\ ret.kind = "ok"
    /\ Len(created) >= 2 /\ ret.val = created[Len(created)]

\* C3: the store is append-only: every step keeps all earlier rows unchanged
\* and in place; a create_evaluation call that returns adds exactly one row
\* and every other call leaves the rows as they were.
C3_AppendOnly ==
    [][ /\ Len(rows') >= Len(rows)
        /\ SubSeq(rows', 1, Len(rows)) = rows
        /\ IF op' = "create_evaluation" /\ ret'.kind = "ok"
           THEN Len(rows') = Len(rows) + 1
           ELSE rows' = rows ]_vars

C3_Witness ==
    /\ op = "init_database" /\ Len(rows) >= 2 /\ parquet # {}

C5_InitIdempotent ==
    [][ op' = "init_database"
           => /\ ret'.kind = "ok"
              /\ SchemaComplete'
              /\ rows' = rows /\ seq' = seq
              /\ (SchemaComplete => schema' = schema) ]_vars

C5_Witness ==
    /\ op = "init_database" /\ ret.kind = "ok" /\ Len(rows) >= 1

\* C6: check_comment_evaluated(c) returns True exactly when some successful
\* create_evaluation call so far was for comment c, and check_comment_evaluated(c, u)
\* exactly when some successful call was for comment c by user u; so it is
\* False before the first such call and True from that call on.
C6_CheckedIffCreated ==
    (op = "check_comment_evaluated" /\ ret.kind = "ok")
       => (ret.val <=> \E i \in 1..Len(created) :
                          /\ created[i].AICommentId = arg[1]
                          /\ (arg[2] # None => created[i].UserId = arg[2]))

C6_Witness ==
    /\ op = "check_comment_evaluated" /\ ret.kind = "ok" /\ ret.val = FALSE
    /\ arg[2] # None
    /\ \E i \in 1..Len(created) : created[i].AICommentId = arg[1]

\* C7: get_evaluations_by_alert(a) / get_evaluations_by_comment(c) return one
\* Evaluation per successful create_evaluation call with that AlertId /
\* AICommentId and nothing else, each equal to the Evaluation that call
\* returned (same EvaluationId, Grade, UserId, Notes, CreatedAt).
C7_QueryReturnsCreated ==
    (op \in {"get_evaluations_by_alert", "get_evaluations_by_comment"} /\ ret.kind = "ok")
       => LET want == {i \in 1..Len(created) :
                          IF op = "get_evaluations_by_alert"
                          THEN created[i].AlertId = arg
                          ELSE created[i].AICommentId = arg}
          IN  /\ Len(ret.val) = Cardinality(want)
              /\ \A i \in want : \E j \in 1..Len(ret.val) : ret.val[j] = created[i]
              /\ \A j \in 1..Len(ret.val) : \E i \in want : ret.val[j] = created[i]

C7_Witness ==
    /\ op = "get_evaluations_by_comment" /\ ret.kind = "ok"
    /\ Len(ret.val) = 2
    /\ ret.val[1].AlertId = ret.val[2].AlertId
    /\ ret.val[1].UserId # ret.val[2].UserId
    /\ ret.val[1].CreatedAt # ret.val[2].CreatedAt

\* C8: in the result of get_evaluations_by_alert / get_evaluations_by_comment
\* an evaluation created by a later create_evaluation call comes before one
\* created by an earlier call.
C8_NewestCallFirst ==
    (op \in {"get_evaluations_by_alert", "get_evaluations_by_comment"} /\ ret.kind = "ok")
       => \A j, k \in 1..Len(ret.val) :
             j < k => CallIndex(ret.val[j]) > CallIndex(ret.val[k])

\* C9: on an initialised store get_database_stats reports the number of
\* successful create_evaluation calls as total_evaluations and the numbers of
\* distinct AlertId, AICommentId and non-null UserId values among them.
C9_StatsCounts ==
    (op = "get_database_stats" /\ TableExists)
       => /\ ret.kind = "ok"
          /\ ret.val.total_evaluations = Len(created)
          /\ ret.val.unique_alerts_evaluated =
                Cardinality({created[i].AlertId : i \in 1..Len(created)})
          /\ ret.val.unique_comments_evaluated =
                Cardinality({created[i].AICommentId : i \in 1..Len(created)})
          /\ ret.val.unique_evaluators =
                Cardinality({created[i].UserId : i \in 1..Len(created)} \ {None})

\* two evaluations of one comment by different users: unique comments 1, total 2
C9_Witness ==
    /\ op = "get_database_stats" /\ TableExists
    /\ Len(created) = 2
    /\ created[1].AICommentId = created[2].AICommentId
    /\ created[1].UserId # created[2].UserId
    /\ None \in {created[1].UserId, created[2].UserId}
    /\ ret.val.unique_comments_evaluated = 1
    /\ ret.val.total_evaluations = 2
    /\ ret.val.unique_evaluators = 1

\* C10: called while the database file or the evaluations table is missing,
\* get_database_stats returns (does not raise) a result with an "error" entry
\* and none of the four counts.
C10_StatsToleratesMissingStore ==
    [][ (op' = "get_database_stats" /\ (~dbFile \/ ~TableExists))
           => /\ ret'.kind = "ok"
              /\ "error" \in DOMAIN ret'.val
              /\ DOMAIN ret'.val \cap {"total_evaluations", "unique_alerts_evaluated",
                     "unique_comments_evaluated", "unique_evaluators"} = {} ]_vars

C10_Witness ==
    /\ op = "get_database_stats" /\ ~TableExists /\ dbFile
    /\ ret.kind = "ok" /\ "error" \in DOMAIN ret.val

----------------------------------------------------------------------------
(* Properties of the queries over the measurement store.                   *)

\* the datasets as the files hold them: no file, no rows
AlertsDataset == IF Exists(ALERTS_FILE) THEN alerts ELSE <<>>
CommentsDataset == IF Exists(COMMENTS_FILE) THEN comments ELSE <<>>
OilDataset == IF Exists(OIL_FILE) THEN oil ELSE <<>>
TelemetryDataset == IF Exists(TELEMETRY_FILE) THEN telemetry ELSE <<>>

HasComment(alert_id) ==
    \E i \in 1..Len(CommentsDataset) : CommentsDataset[i].AlertId = alert_id

\* the rows of the Alerts dataset with this AlertId
AlertsWithId(alert_id) == SelectSeq(AlertsDataset, LAMBDA r : r.AlertId = alert_id)

\* C11: every AlertId returned by get_alerts_with_filters, for any filter
\* values, and by get_available_alerts has at least one AIComment row.
C11_ReturnedAlertsHaveComments ==
    op \in {"get_alerts_with_filters", "get_available_alerts"} =>
        \A i \in 1..Len(ret.val) : HasComment(ret.val[i])

\* a filtered call returns an alert while another alert that passes the same
\* filter has no comment
C11_Witness ==
    /\ op = "get_alerts_with_filters"
    /\ arg = <<"Engine", None, "All">>
    /\ ret.val = <<"a2">>
    /\ \E i \in 1..Len(AlertsDataset) :
          AlertsDataset[i].AlertId = "a10" /\ AlertsDataset[i].Component = "Engine"

\* C12: get_alerts_with_filters returns exactly the AlertIds of the alerts
\* that have an AIComment and whose Component, UnitId and Label equal every
\* filter that is given and is not "All", without duplicates, in ascending order.
C12_FilteredCatalogExact ==
    op = "get_alerts_with_filters" =>
        /\ {ret.val[i] : i \in 1..Len(ret.val)} =
               {AlertsDataset[i].AlertId : i \in {k \in 1..Len(AlertsDataset) :
                   /\ HasComment(AlertsDataset[k].AlertId)
                   /\ arg[1] \in {None, "All"} \/ AlertsDataset[k].Component = arg[1]
                   /\ arg[2] \in {None, "All"} \/ AlertsDataset[k].UnitId = arg[2]
                   /\ arg[3] \in {None, "All"} \/ AlertsDataset[k].Label = arg[3]}}
        /\ \A i \in 1..Len(ret.val), j \in 1..Len(ret.val) :
               i < j => StrLess(ret.val[i], ret.val[j])

\* the oil samples of an alert's OilAlertId for one element, and the latest of them
OilSamples(alert_id, element) ==
    SelectSeq(OilDataset, LAMBDA r :
        /\ AlertsWithId(alert_id) # <<>>
        /\ r.OilAlertId = AlertsWithId(alert_id)[1].OilAlertId
        /\ r.ElementName = element)
LatestSample(alert_id, element) ==
    LET g == OilSamples(alert_id, element)
    IN  g[CHOOSE i \in 1..Len(g) : \A j \in 1..Len(g) : g[j].SampleDate <= g[i].SampleDate]

\* C13: get_oil_summary_table has at most one row per ElementName, and the
\* Value, LimitValue and BreachLevel of a row are those of the element's
\* sample with the greatest SampleDate, nulls included.
C13_SnapshotIsLatestRow ==
    op = "get_oil_summary_table" =>
        /\ \A i \in 1..Len(ret.val), j \in 1..Len(ret.val) :
               ret.val[i].ElementName = ret.val[j].ElementName => i = j
        /\ \A i \in 1..Len(ret.val) :
               LET latest == LatestSample(arg, ret.val[i].ElementName)
               IN  /\ ret.val[i].Value = latest.Value
                   /\ ret.val[i].LimitValue = latest.LimitValue
                   /\ ret.val[i].BreachLevel = latest.BreachLevel

\* C14: in get_oil_summary_table the elements whose latest sample has
\* IsLimitReached come before the others, and each of the two groups is in
\* ascending ElementName order.
C14_BreachedElementsFirst ==
    op = "get_oil_summary_table" =>
        \A i \in 1..Len(ret.val), j \in 1..Len(ret.val) :
            i < j =>
                LET x == LatestSample(arg, ret.val[i].ElementName).IsLimitReached
                    y == LatestSample(arg, ret.val[j].ElementName).IsLimitReached
                IN  /\ x \/ ~y
                    /\ x = y => StrLess(ret.val[i].ElementName, ret.val[j].ElementName)

\* a breached Fe and Si precede an unbreached Cu
C14_Witness ==
    /\ op = "get_oil_summary_table"
    /\ Len(ret.val) = 3
    /\ ret.val[1].ElementName = "Fe"
    /\ ret.val[2].ElementName = "Si"
    /\ ret.val[3].ElementName = "Cu"
    /\ ~LatestSample(arg, "Cu").IsLimitReached

\* the telemetry rows of a TelAlertId
TelemetryOf(tel_alert_id) ==
    SelectSeq(TelemetryDataset, LAMBDA r : r.TelAlertId = tel_alert_id)

\* C15: for an alert with a TelAlertId and a TimeStart t0,
\* get_telemetry_data_for_alert returns exactly the rows of that TelAlertId
\* with t0 - 48h <= Timestamp <= t0 + 48h.
C15_ClosedWindow ==
    (/\ op = "get_telemetry_data_for_alert"
     /\ AlertsWithId(arg) # <<>>
     /\ AlertsWithId(arg)[1].TelAlertId # None
     /\ AlertsWithId(arg)[1].TimeStart # NaT) =>
        LET t0 == AlertsWithId(arg)[1].TimeStart[1]
        IN  ret.val = SelectSeq(TelemetryOf(AlertsWithId(arg)[1].TelAlertId),
                          LAMBDA r : t0 - 48 <= r.Timestamp /\ r.Timestamp <= t0 + 48)

\* C16: for an alert with a TelAlertId and no TimeStart,
\* get_telemetry_data_for_alert returns every row of that TelAlertId.
C16_NoTimeStartNoWindow ==
    (/\ op = "get_telemetry_data_for_alert"
     /\ AlertsWithId(arg) # <<>>
     /\ AlertsWithId(arg)[1].TelAlertId # None
     /\ AlertsWithId(arg)[1].TimeStart = NaT) =>
        ret.val = TelemetryOf(AlertsWithId(arg)[1].TelAlertId)

\* the excesses Value - UpperLimitValue of a variable in the telemetry window
Excesses(alert_id, var_name) ==
    LET w == TelemetryDataForAlert(alert_id)
    IN  {w[i].Value - w[i].UpperLimitValue[1] :
            i \in {k \in 1..Len(w) : w[k].VariableName = var_name
                                     /\ w[k].UpperLimitValue # NaN}}

\* C17: get_telemetry_breaches_table has one row for each variable of the
\* telemetry window with a row where IsLimitReached, and no other row; MaxExcess
\* is the greatest Value - UpperLimitValue of the variable, at least 0, and 0
\* without an upper limit; the rows are in descending MaxExcess order.
C17_BreachRanking ==
    op = "get_telemetry_breaches_table" =>
        LET w == TelemetryDataForAlert(arg)
        IN  /\ \A i \in 1..Len(ret.val), j \in 1..Len(ret.val) :
                   ret.val[i].VariableName = ret.val[j].VariableName => i = j
            /\ {ret.val[i].VariableName : i \in 1..Len(ret.val)} =
                   {w[k].VariableName : k \in {n \in 1..Len(w) : w[n].IsLimitReached}}
            /\ \A i \in 1..Len(ret.val) :
                   LET e == Excesses(arg, ret.val[i].VariableName)
                   IN  /\ ret.val[i].MaxExcess >= 0
                       /\ \A x \in e : x <= ret.val[i].MaxExcess
                       /\ ret.val[i].MaxExcess > 0 => ret.val[i].MaxExcess \in e
            /\ \A i \in 1..Len(ret.val), j \in 1..Len(ret.val) :
                   i < j => ret.val[i].MaxExcess >= ret.val[j].MaxExcess

\* four breached variables: excess 20, excess 5, no upper limit, and breached
\* while below the upper limit; rpm is in the window and not breached
C17_Witness ==
    /\ op = "get_telemetry_breaches_table"
    /\ Len(ret.val) = 4
    /\ [i \in 1..4 |-> ret.val[i].MaxExcess] = <<20, 5, 0, 0>>
    /\ \E i \in 1..4 : ret.val[i].VariableName = "volt"
    /\ \E k \in 1..Len(TelemetryDataForAlert(arg)) :
          TelemetryDataForAlert(arg)[k].VariableName = "rpm"

\* C18: get_alert_details returns a record exactly when the Alerts dataset has
\* a row with the AlertId, with that row's fields, whatever the other
\* datasets hold and whether or not their files exist.
C18_DetailsFromAlertsOnly ==
    op = "get_alert_details" =>
        IF AlertsWithId(arg) = <<>> THEN ret.val = <<>>
        ELSE /\ ret.val # <<>>
             /\ LET d == ret.val[1]
                    r == AlertsWithId(arg)[1]
                IN  /\ d.UnitId = r.UnitId /\ d.Component = r.Component
                    /\ d.TimeStart = r.TimeStart /\ d.OilAlertId = r.OilAlertId
                    /\ d.TelAlertId = r.TelAlertId /\ d.Label = r.Label

----------------------------------------------------------------------------
(* Properties of the start-up: data validation and download.               *)

\* C19: while one of the four data files is missing no page shows an alert
\* selected for review or its grading forms.
C19_NoReviewWithoutData ==
    (\E f \in DataFiles : ~Exists(f)) =>
        page.stage \notin {"no_details", "no_comments", "forms"}

\* C20: download_data_files asks object storage for exactly the files that
\* are missing or were modified 24 hours ago or earlier.
C20_StaleOrMissingFetched ==
    [][op' \in {"download_data_files", "streamlit_app.main"} =>
          requested' = {f \in DataFiles :
                           ~(local[f] # Absent /\ local[f][1] < 86400)}]_vars

\* C21: download_data_files returns True exactly when every one of the four
\* required files was downloaded by the call or skipped as fresh.
C21_TrueIffAllObtained ==
    [][op' = "download_data_files" =>
          (ret'.val = TRUE <=>
              \A f \in DataFiles :
                  \/ local[f] # Absent /\ local[f][1] < DaySeconds
                  \/ local[f] = Absent /\ local'[f] # Absent)]_vars

----------------------------------------------------------------------------
(* Properties of the synchronisation with object storage.                  *)

\* the instant a stored CreatedAt text denotes, in microseconds
Instant(CreatedAt) ==
    fromisoformat(CreatedAt).second * 1000000 + fromisoformat(CreatedAt).microsecond

EvaluationFields ==
    {"EvaluationId", "AICommentId", "AlertId", "UserId", "Grade", "Notes", "CreatedAt"}

\* C22: export_evaluations_to_parquet returns None (and writes no file) when
\* the database file is missing or the table holds no rows; otherwise the
\* file written holds exactly the rows of the table, one per evaluation, with
\* the seven fields, no row before one with a later CreatedAt; the table is
\* left as it was.
C22_ExportSnapshot ==
    [][op' = "export_evaluations_to_parquet" =>
          /\ rows' = rows
          /\ IF ~dbFile \/ rows = <<>>
             THEN ret'.val = <<>> /\ parquet' = parquet
             ELSE /\ Len(ret'.val) = Len(rows)
                  /\ {ret'.val[j] : j \in 1..Len(ret'.val)} =
                         {rows[i] : i \in 1..Len(rows)}
                  /\ \A j \in 1..Len(ret'.val) : DOMAIN ret'.val[j] = EvaluationFields
                  /\ \A j, k \in 1..Len(ret'.val) :
                        j < k => Instant(ret'.val[j].CreatedAt)
                                    >= Instant(ret'.val[k].CreatedAt)
                  /\ ExportName \in parquet']_vars

\* two evaluations created at different instants, exported later one first
C22_Witness ==
    /\ op = "export_evaluations_to_parquet"
    /\ Len(ret.val) = 2
    /\ ret.val[1].EvaluationId = 2 /\ ret.val[2].EvaluationId = 1
    /\ ret.val[1].CreatedAt # ret.val[2].CreatedAt
    /\ Len(rows) = 2

\* every setting upload_to_s3 needs is there
Credentials ==
    None \notin {environ.ACCESS_KEY, environ.SECRET_KEY, environ.BUCKET_NAME}

\* C23: upload_evaluations_parquet returns (never raises); it returns True
\* exactly when the export produced a file and the upload succeeded, False
\* when there is nothing to export, a credential is missing or the transfer
\* fails; the local parquet file is gone after a successful upload and kept
\* after a failed one.
C23_UploadReported ==
    [][op' = "upload_evaluations_parquet" =>
          /\ ret'.kind = "ok"
          /\ ret'.val = (dbFile /\ rows # <<>> /\ Credentials /\ arg')
          /\ ret'.val => ExportName \notin parquet'
          /\ (dbFile /\ rows # <<>> /\ ~ret'.val) => ExportName \in parquet'
          /\ ~ret'.val => parquet \subseteq parquet']_vars

\* the transfer would have worked but the secret key is missing: False, file kept
C23_Witness ==
    /\ op = "upload_evaluations_parquet"
    /\ arg = TRUE /\ environ.SECRET_KEY = None
    /\ ret.val = FALSE
    /\ rows # <<>> /\ parquet # {}

\* C30: no line printed by an operation of s3_sync.py contains the value of
\* the access key or of the secret key.
C30_NoSecretPrinted ==
    \A i \in 1..Len(stdout) : \A j \in 1..Len(stdout[i]) :
        stdout[i][j] \notin ({environ.ACCESS_KEY, environ.SECRET_KEY} \ {None})

----------------------------------------------------------------------------
(* Properties of the statistics beside other sessions.                     *)

\* the four counts of the first n rows of the table
CountsOf(n) ==
    [total_evaluations |-> n,
     unique_alerts_evaluated |-> Cardinality({rows[i].AlertId : i \in 1..n}),
     unique_comments_evaluated |-> Cardinality({rows[i].AICommentId : i \in 1..n}),
     unique_evaluators |-> Cardinality({rows[i].UserId : i \in 1..n} \ {None})]

\* C29: the counts a get_database_stats call returns, with create_evaluation
\* calls of other sessions running in between, are those of one state of the
\* table during the call: no unique count exceeds total_evaluations and all
\* four are the counts of the same rows.
C29_StatsSnapshot ==
    (op = "get_database_stats" /\ ret.kind = "ok"
        /\ "total_evaluations" \in DOMAIN ret.val)
    => /\ ret.val.unique_alerts_evaluated <= ret.val.total_evaluations
       /\ ret.val.unique_comments_evaluated <= ret.val.total_evaluations
       /\ ret.val.unique_evaluators <= ret.val.total_evaluations
       /\ \E n \in 0..Len(rows) : \A k \in DOMAIN CountsOf(n) :
             ret.val[k] = CountsOf(n)[k]

----------------------------------------------------------------------------
(* Properties of the Review page.                                          *)

\* C24: a failed grade submission tells a validation failure from a storage
\* failure: create_evaluation fails with ValueError exactly when the Grade is
\* out of range and with a database error otherwise, and the message the
\* submit handler of the page shows for a
\* storage failure is not one it would show for a validation failure.
C24_FailuresDistinct ==
    /\ (op = "create_evaluation" /\ ret.kind # "ok") =>
          /\ ret.kind = "ValueError" <=> ~EvaluationCreate_post_init(arg)
          /\ ret.kind # "ValueError" => ret.kind = "OperationalError"
    /\ (op = "Review.submit" /\ page.message # <<>>) =>
          \A Grade \in GradeInputs : page.message # ErrorText(ValueErrorOf(Grade))

\* a submission of the page met a locked database and shows its message
C24_Witness ==
    /\ op = "Review.submit"
    /\ page.message = <<"Error submitting evaluation: ", "database is locked">>
    /\ page.stage = "forms"

\* the stages in which the page displays an alert
Displaying == {"forms", "no_details", "no_comments", "exception"}

\* C25: each press of the top "Next Alert" button changes the displayed
\* alert to the successor of the displayed alert in the filtered list,
\* wrapping from the last to the first.
C25_NextIsSuccessor ==
    [][(op' = "Review.next_alert" /\ page.stage \in Displaying) =>
          page'.selected_alert =
              Successor(page.available_alerts, page.selected_alert)]_vars

\* C26: when an alert is chosen in "Select Alert to Evaluate", the alert
\* displayed in that run is the chosen one, whatever "Next Alert" presses
\* came before.
C26_ChosenIsDisplayed ==
    [][op' = "Review.alert_selector" => page'.selected_alert = arg']_vars

\* C27: the alert displayed is a member of the list get_alerts_with_filters
\* returns for the selected component, unit and label.
C27_DisplayedInFilteredList ==
    page.stage \in Displaying =>
        page.selected_alert \in
            Options(AlertsWithFilters(page.selected_component, page.selected_unit,
                                      page.selected_label))

\* an alert stored by "Next Alert" is no longer in the filtered list, and
\* the page displays an alert of the list
C27_Witness ==
    /\ page.stage \in Displaying
    /\ session_state.selected_alert # None
    /\ session_state.selected_alert \notin Options(page.available_alerts)
    /\ page.selected_alert \in Options(page.available_alerts)

\* C28: the number of comments reported as already evaluated never exceeds
\* the number of comments listed for the alert shown.
C28_EvaluatedWithinListed ==
    page.stage = "forms" => page.already_evaluated <= page.comments_found

====
